---------------------------- MODULE Spec2Model ----------------------------
(***************************************************************************)
(* InvoiceBot (src/src/main.rs): the OAuth2 credential lifecycle           *)
(* (check_access, first_access, refresh, save_access) and the pipeline     *)
(* that main drives: get_files in a refresh loop, then ready_invoice       *)
(* (file_copy, the cell PUT, file_export, the local write), get_email,     *)
(* the confirmation prompt and send_email.                                 *)
(*                                                                         *)
(* The remote services, the filesystem and the terminal are the            *)
(* environment: every response, I/O outcome and typed line is chosen       *)
(* nondeterministically from a small set.  A JSON object is a record whose *)
(* DOMAIN is the set of fields present; a string the code inspects is a    *)
(* sequence of one-character strings; a byte is a number in 0..255.        *)
(***************************************************************************)
EXTENDS Integers, Sequences, FiniteSets, TLC

(* ------------------------------ bounds --------------------------------- *)

\* Longest scope string a token response carries.
MaxScopeLen == 2

\* Invocation counters saturate here (they only observe the run).
MaxCalls == 3

(* --------------------------- program constants ------------------------- *)

\* DRIVE_SCOPES.len()
NumDriveScopes == 2

(* ------------------------------ environment ---------------------------- *)

ScopeChars == {"s", " "}

RECURSIVE SeqsUpTo(_, _)
SeqsUpTo(S, n) ==
    IF n = 0 THEN {<<>>}
    ELSE LET shorter == SeqsUpTo(S, n - 1)
         IN  shorter \cup {Append(q, c) : q \in {r \in shorter : Len(r) = n - 1}, c \in S}

ScopeStrings == SeqsUpTo(ScopeChars, MaxScopeLen)

\* Scope strings a refresh response or a stored credential carries.
StoredScopes == {<<"s", " ", "s">>}

AccessTokens == {"at1", "at2"}
\* The access token of a stored credential or of the first grant.
FirstTokens == {"at1"}
RefreshTokens == {"rt1"}

\* HTTP statuses the services answer with.
Statuses == {200, 401, 500}

CopyIds == {"C1"}
Identities == {[displayName |-> "Ann", emailAddress |-> "ann@x"],
               [displayName |-> "Bob", emailAddress |-> "bob@x"]}

\* Exported documents: one, two, three and four bytes ("%PDF").
PdfBodies == {<<10, 255>>, <<37, 80, 68, 70>>}
\* Bytes of the body of a non-2xx export response ("{}").
ErrorBytes == <<123, 125>>

NoToken == "none"
NoId == "none"


(* ------------------------- results and responses ----------------------- *)

\* Result<T>: Ok(v) or Err(e); a panic unwinds instead of returning.
Ok(v) == [kind |-> "ok", val |-> v]
Err(k, s) == [kind |-> "err", err |-> k, status |-> s]
Panic == [kind |-> "panic", err |-> "index_out_of_bounds", status |-> 0]

\* A result without its value: what kind it is.
Outcome(r) == [kind |-> r.kind, err |-> IF r.kind = "ok" THEN "none" ELSE r.err,
               status |-> IF r.kind = "ok" THEN 0 ELSE r.status]

NoError == [step |-> "none", err |-> "none", status |-> 0]
Failure(step, r) == [step |-> step, err |-> r.err, status |-> r.status]

\* What `.send().await` yields: a transport error or a response with a status
\* and a body.
Transport == [kind |-> "transport", status |-> 0]
Http(s, b) == [kind |-> "http", status |-> s, body |-> b]

\* The body of a non-2xx answer: a JSON error object, none of the types the
\* program decodes.
ErrorJson == [error |-> "e"]
\* A body that is not JSON at all.
Garbage == [garbage |-> "g"]

\* reqwest's Response::error_for_status: a 4xx or 5xx status is an error.
IsErrorStatus(s) == s >= 400 /\ s <= 599

Fields(obj) == DOMAIN obj

(* ------------------------------ Access --------------------------------- *)

\* #[derive(Deserialize)] struct Access: every field is required but
\* refresh_token, which #[serde(default)] fills with the empty string.
DecodeAccess(obj) ==
    IF {"access_token", "expires_in", "scope", "token_type"} \subseteq Fields(obj)
    THEN Ok([access_token  |-> obj.access_token,
             expires_in    |-> obj.expires_in,
             refresh_token |-> IF "refresh_token" \in Fields(obj)
                               THEN obj.refresh_token ELSE "",
             scope         |-> obj.scope,
             token_type    |-> obj.token_type])
    ELSE Err("decode", 0)

\* #[derive(Serialize)] struct Access: every field is written.
EncodeAccess(a) ==
    [access_token  |-> a.access_token,
     expires_in    |-> a.expires_in,
     refresh_token |-> a.refresh_token,
     scope         |-> a.scope,
     token_type    |-> a.token_type]

\* The credential file: absent, holding a JSON object, or holding bytes that
\* are not one (empty, cut short).
Absent == [kind |-> "absent"]
Damaged == [kind |-> "damaged"]
Stored(obj) == [kind |-> "json", json |-> obj, durable |-> TRUE]
\* Written and flushed, sync_all not done.
Unsynced(obj) == [kind |-> "json", json |-> obj, durable |-> FALSE]

\* Outcomes of the I/O in save_access, in the order of its statements.
SaveOutcomes == {"create_fails", "write_fails", "sync_fails", "saved"}

\* The places inside save_access where the process can be killed with the
\* file changed: between File::create and write_all, and after write_all.
CrashPoints == {"killed_after_create", "killed_after_write"}

\* The call never returned: the process is gone.
Killed == [kind |-> "killed", err |-> "none", status |-> 0]

\* save_access with the result of sync_all dropped.
save_access_SyncUnchecked(a, path, io) ==
    CASE io = "create_fails" -> [res |-> Err("io", 0), file |-> path]
      [] io = "write_fails"  -> [res |-> Err("io", 0), file |-> Damaged]
      [] io = "killed_after_create" -> [res |-> Killed, file |-> Damaged]
      [] io = "killed_after_write"  -> [res |-> Killed, file |-> Unsynced(EncodeAccess(a))]
      [] io = "sync_fails"   -> [res |-> Ok(a), file |-> Unsynced(EncodeAccess(a))]
      [] OTHER               -> [res |-> Ok(a), file |-> Stored(EncodeAccess(a))]

\* save_access: File::create truncates, write_all + flush write the JSON,
\* sync_all makes it durable; the first failing step returns its error.
save_access(a, path, io) ==
    CASE io = "create_fails" -> [res |-> Err("io", 0), file |-> path]
      [] io = "write_fails"  -> [res |-> Err("io", 0), file |-> Damaged]
      [] io = "killed_after_create" -> [res |-> Killed, file |-> Damaged]
      [] io = "killed_after_write"  -> [res |-> Killed, file |-> Unsynced(EncodeAccess(a))]
      [] io = "sync_fails"   -> [res |-> Err("io", 0), file |-> Unsynced(EncodeAccess(a))]
      [] OTHER               -> [res |-> Ok(a), file |-> Stored(EncodeAccess(a))]

\* str::split(' ').count(): one more than the number of spaces.
RECURSIVE SplitCount(_)
SplitCount(s) ==
    IF s = <<>> THEN 1
    ELSE (IF Head(s) = " " THEN 1 ELSE 0) + SplitCount(Tail(s))

\* The scope check with the comparison loosened: extra words pass.
ScopesGranted_AtLeast(scope) == SplitCount(scope) >= NumDriveScopes

\* first_access lines 181-184: the scope check.
ScopesGranted(scope) == SplitCount(scope) = NumDriveScopes

\* first_access, from the token endpoint's answer on.
first_access(resp, path, io) ==
    IF resp.kind = "transport" THEN [res |-> Err("transport", 0), file |-> path, saved |-> FALSE]
    ELSE LET text == DecodeAccess(resp.body)
         IN  IF text.kind # "ok" THEN [res |-> text, file |-> path, saved |-> FALSE]
             ELSE IF ~ScopesGranted(text.val.scope)
                  THEN [res |-> Err("scopes", 0), file |-> path, saved |-> FALSE]
                  ELSE LET s == save_access(text.val, path, io)
                       IN  [res |-> s.res, file |-> s.file, saved |-> TRUE]

\* The struct update taken from the wrong side: the old access token is kept.
RefreshedAccess_Stale(access, text) ==
    [text EXCEPT !.refresh_token = access.refresh_token,
                 !.access_token = access.access_token]

\* The refresh response used as it was decoded: no carry-over.
RefreshedAccess_AsDecoded(access, text) == text

\* refresh lines 208-212: Access { refresh_token: access.refresh_token, ..text }
RefreshedAccess(access, text) ==
    [text EXCEPT !.refresh_token = access.refresh_token]

\* A refresh that opens the credential file for writing before it has a
\* credential to write.
refresh_CreatesFirst(access, resp, path, io) ==
    IF resp.kind = "transport" THEN [res |-> Err("transport", 0), file |-> Damaged, saved |-> FALSE]
    ELSE LET text == DecodeAccess(resp.body)
         IN  IF text.kind # "ok" THEN [res |-> text, file |-> Damaged, saved |-> FALSE]
             ELSE LET s == save_access(RefreshedAccess(access, text.val), path, io)
                  IN  [res |-> s.res, file |-> s.file, saved |-> TRUE]

\* refresh, from the token endpoint's answer on.
refresh(access, resp, path, io) ==
    IF resp.kind = "transport" THEN [res |-> Err("transport", 0), file |-> path, saved |-> FALSE]
    ELSE LET text == DecodeAccess(resp.body)
         IN  IF text.kind # "ok" THEN [res |-> text, file |-> path, saved |-> FALSE]
             ELSE LET s == save_access(RefreshedAccess(access, text.val), path, io)
                  IN  [res |-> s.res, file |-> s.file, saved |-> TRUE]

\* A check that sends every file that does not parse to the bootstrap.
PathExists_Parses(path) == path.kind = "json" /\ DecodeAccess(path.json).kind = "ok"

\* check_access line 122: path.exists()
PathExists(path) == path.kind # "absent"

\* check_access lines 123-126: open, read and parse the file that exists.
load_access(path, readable) ==
    IF ~readable THEN Err("io", 0)
    ELSE IF path.kind = "json" THEN DecodeAccess(path.json)
    ELSE Err("decode", 0)

(* ---------------------------- DocumentGateway -------------------------- *)

\* #[derive(Deserialize)] struct ListResponse { files }
DecodeList(obj) ==
    IF "files" \in Fields(obj) THEN Ok(obj.files) ELSE Err("decode", 0)

\* #[derive(Deserialize)] struct FileResource
DecodeFile(obj) ==
    IF {"id", "name", "mimeType", "parents", "webViewLink"} \subseteq Fields(obj)
    THEN Ok(obj) ELSE Err("decode", 0)

\* #[derive(Deserialize)] struct DriveAboutResponse { user }
DecodeAbout(obj) ==
    IF "user" \in Fields(obj) THEN Ok(obj.user) ELSE Err("decode", 0)

\* `resp?.error_for_status()?`
CheckedStatus(resp) ==
    IF resp.kind = "transport" THEN Err("transport", 0)
    ELSE IF IsErrorStatus(resp.status) THEN Err("status", resp.status)
    ELSE Ok(resp)

\* get_files lines 248-254: template's send and status, folder's send and
\* status, template's body, folder's body, then element 0 of each list;
\* Vec::swap_remove(0) panics on an empty list.
get_files(template, folder) ==
    LET t == CheckedStatus(template)
        f == CheckedStatus(folder)
    IN  IF t.kind # "ok" THEN t
        ELSE IF f.kind # "ok" THEN f
        ELSE LET tl == DecodeList(template.body)
                 fl == DecodeList(folder.body)
             IN  IF tl.kind # "ok" THEN tl
                 ELSE IF fl.kind # "ok" THEN fl
                 ELSE IF Len(tl.val) = 0 \/ Len(fl.val) = 0 THEN Panic
                 ELSE Ok([template |-> tl.val[1], folder |-> fl.val[1]])

\* file_copy lines 261-276: the file named in the URL and the parents of the
\* request body.
copy_request(folder_id, file_id) == [source |-> file_id, parents |-> <<folder_id>>]

\* file_copy lines 269-280: no status check, the body must be a FileResource.
file_copy(resp) ==
    IF resp.kind = "transport" THEN Err("transport", 0)
    ELSE DecodeFile(resp.body)

\* The cell PUT without error_for_status.
patch_cell_Unchecked(resp) ==
    IF resp.kind = "transport" THEN Err("transport", 0) ELSE Ok(resp)

\* ready_invoice lines 336-342: the cell PUT, with error_for_status.
patch_cell(resp) == CheckedStatus(resp)

\* file_export lines 289-295: no status check, the body's bytes whatever
\* the status.
file_export(resp) ==
    IF resp.kind = "transport" THEN Err("transport", 0)
    ELSE Ok(resp.body)

\* get_email lines 304-311: no status check, the body must be an About.
get_email(resp) ==
    IF resp.kind = "transport" THEN Err("transport", 0)
    ELSE DecodeAbout(resp.body)

(* ------------------------- ready_invoice's file ------------------------ *)

\* The local output file: its bytes and whether sync_all made them durable.
NoFile == [kind |-> "absent", bytes |-> <<>>, durable |-> FALSE]
LocalFile(b, d) == [kind |-> "file", bytes |-> b, durable |-> d]

\* The local write without sync_all.
persist_pdf_Unsynced(bytes, out, io, n) ==
    CASE io = "create_fails" -> [res |-> Err("io", 0), file |-> out]
      [] io = "write_fails"  -> [res |-> Err("io", 0),
                                 file |-> [kind |-> "file", bytes |-> SubSeq(bytes, 1, n),
                                           durable |-> FALSE]]
      [] OTHER               -> [res |-> Ok(bytes),
                                 file |-> [kind |-> "file", bytes |-> bytes,
                                           durable |-> FALSE]]

\* ready_invoice lines 346-349: File::create truncates, write_all + flush
\* write the bytes (n of them when the write fails), sync_all makes them
\* durable.
persist_pdf(bytes, out, io, n) ==
    CASE io = "create_fails" -> [res |-> Err("io", 0), file |-> out]
      [] io = "write_fails"  -> [res |-> Err("io", 0),
                                 file |-> LocalFile(SubSeq(bytes, 1, n), FALSE)]
      [] io = "sync_fails"   -> [res |-> Err("io", 0), file |-> LocalFile(bytes, FALSE)]
      [] OTHER               -> [res |-> Ok(bytes), file |-> LocalFile(bytes, TRUE)]

(* ------------------------------ send_email ----------------------------- *)

\* The padding character '=' of base64, after the 64 digits 0..63.
B64Pad == 64

\* base64::encode: three bytes make four digits, a last group of one or two
\* bytes is padded.
RECURSIVE Base64Encode(_)
Base64Encode(b) ==
    IF Len(b) = 0 THEN <<>>
    ELSE IF Len(b) = 1
    THEN <<b[1] \div 4, (b[1] % 4) * 16, B64Pad, B64Pad>>
    ELSE IF Len(b) = 2
    THEN <<b[1] \div 4, (b[1] % 4) * 16 + (b[2] \div 16), (b[2] % 16) * 4, B64Pad>>
    ELSE <<b[1] \div 4, (b[1] % 4) * 16 + (b[2] \div 16),
           (b[2] % 16) * 4 + (b[3] \div 64), b[3] % 64>>
         \o Base64Encode(SubSeq(b, 4, Len(b)))

INVOICE_EMAIL == "Accounting <accounting@mobilecoin.com>"

\* The characters base64::encode writes for the digits 0..63 and the pad.
B64Alphabet ==
    <<"A", "B", "C", "D", "E", "F", "G", "H", "I", "J", "K", "L", "M",
     "N", "O", "P", "Q", "R", "S", "T", "U", "V", "W", "X", "Y", "Z",
     "a", "b", "c", "d", "e", "f", "g", "h", "i", "j", "k", "l", "m",
     "n", "o", "p", "q", "r", "s", "t", "u", "v", "w", "x", "y", "z",
     "0", "1", "2", "3", "4", "5", "6", "7", "8", "9", "+", "/", "=">>

RECURSIVE Base64Text(_)
Base64Text(d) ==
    IF Len(d) = 0 THEN "" ELSE B64Alphabet[d[1] + 1] \o Base64Text(Tail(d))

\* main line 404: the date of the run, [year]-[month]-[day].
iso_time == "2021-07-16"

\* send_email lines 358-379: the lines of the format string, each a list of
\* literal pieces and arguments. The string starts after the escaped line
\* break and ends with the four spaces before the closing quote.
MessageLines(display, email, b64) ==
    << <<"MIME-Version: 1.0">>,
       <<"From: ", display, " <", email, ">">>,
       <<"To: ", INVOICE_EMAIL>>,
       <<"Subject: Invoice - ", display, " - ", iso_time>>,
       <<"Content-Type: multipart/mixed; boundary=invoice_pdf">>,
       <<>>,
       <<"--invoice_pdf">>,
       <<"Content-Type: text/plain; charset=\"UTF-8\"">>,
       <<>>,
       <<"Here is my invoice for the previous 2 weeks, thank you.">>,
       <<>>,
       <<"--invoice_pdf">>,
       <<"Content-Type: application/pdf; name=\"Invoice-", display, "-", iso_time, ".pdf\"">>,
       <<"Content-Disposition: attachment; filename=\"Invoice-", display, "-", iso_time, ".pdf\"">>,
       <<"Content-Transfer-Encoding: base64">>,
       <<>>,
       <<b64>>,
       <<>>,
       <<"--invoice_pdf--">>,
       <<"    ">> >>

\* format!: the pieces in order, a line feed between one line and the next.
\* A text is a sequence of pieces; the line feed is a piece of its own.
RECURSIVE Format(_)
Format(lines) ==
    IF Len(lines) = 0 THEN <<>>
    ELSE IF Len(lines) = 1 THEN lines[1]
    ELSE lines[1] \o <<"\n">> \o Format(Tail(lines))

\* str::replace('\n', "\r\n")
RECURSIVE ReplaceLf(_)
ReplaceLf(text) ==
    IF Len(text) = 0 THEN <<>>
    ELSE (IF text[1] = "\n" THEN <<"\r", "\n">> ELSE <<text[1]>>)
         \o ReplaceLf(Tail(text))

\* String::len: the number of bytes.
RECURSIVE ByteLen(_)
ByteLen(text) ==
    IF Len(text) = 0 THEN 0 ELSE Len(text[1]) + ByteLen(Tail(text))

\* The length taken before the line ends are converted.
Wire_LengthOfText(text) ==
    [body |-> ReplaceLf(text), content_length |-> ByteLen(text)]

\* send_email lines 386-392: the converted message is the body and its
\* len() the Content-Length header.
Wire(text) ==
    LET msg == ReplaceLf(text)
    IN  [body |-> msg, content_length |-> ByteLen(msg)]

\* send_email lines 358-392: the request that is posted.
ComposeMessage(display, email, pdf) ==
    LET attachment == Base64Encode(pdf)
        wire == Wire(Format(MessageLines(display, email, Base64Text(attachment))))
    IN  [from_name      |-> display,
         from_email     |-> email,
         to             |-> INVOICE_EMAIL,
         attachment     |-> attachment,
         body           |-> wire.body,
         content_length |-> wire.content_length]

NoMessage == [from_name |-> "", from_email |-> "", to |-> "", attachment |-> <<>>,
              body |-> <<>>, content_length |-> 0]

(* ------------------------------ the prompt ----------------------------- *)

\* Lines a user may type at the confirmation prompt.
ConfirmLines ==
    {<<"y", "\n">>, <<" ", "Y", "e", "S", " ", "\n">>, <<"n", "\n">>,
     <<"y", "e", "\n">>, <<"y", " ", "e", "s", "\n">>, <<>>}

\* Bytes on standard input that are not valid UTF-8, written as one mark.
NotUtf8 == <<"0xFF", "\n">>

\* What standard input may hold when the prompt reads it.
ConfirmInputs == ConfirmLines \cup {NotUtf8}

\* Stdin::read_line into a String: the line, or an InvalidData error when the
\* bytes are not UTF-8.
read_line(input) ==
    IF input = NotUtf8 THEN Err("invalid_data", 0) ELSE Ok(input)

\* str::make_ascii_lowercase, on the letters the lines use.
AsciiLower(c) ==
    CASE c = "Y" -> "y" [] c = "E" -> "e" [] c = "S" -> "s" [] c = "N" -> "n"
      [] OTHER -> c

IsWhitespace(c) == c \in {" ", "\n", "\t", "\r"}

\* str::trim: leading and trailing whitespace removed.
RECURSIVE TrimStart(_)
TrimStart(s) ==
    IF s # <<>> /\ IsWhitespace(Head(s)) THEN TrimStart(Tail(s)) ELSE s
RECURSIVE TrimEnd(_)
TrimEnd(s) ==
    IF s # <<>> /\ IsWhitespace(s[Len(s)]) THEN TrimEnd(SubSeq(s, 1, Len(s) - 1)) ELSE s
Trim(s) == TrimEnd(TrimStart(s))

\* main lines 444-446
Confirmed(line) ==
    LET s == Trim([i \in 1..Len(line) |-> AsciiLower(line[i])])
    IN  s = <<"y">> \/ s = <<"y", "e", "s">>

(* --------------------------- what the services answer ------------------ *)

OkStatuses == {s \in Statuses : ~IsErrorStatus(s)}
ErrorStatuses == {s \in Statuses : IsErrorStatus(s)}

\* A non-2xx answer carries the JSON error object; a 2xx answer carries
\* `bodies` or something undecodable.
JsonResponses(bodies) ==
    {Transport}
        \cup {Http(s, ErrorJson) : s \in ErrorStatuses}
        \cup {Http(s, b) : s \in OkStatuses, b \in bodies \cup {Garbage}}

FileResource(id) ==
    [id |-> id, name |-> "Invoice", mimeType |-> "m", parents |-> <<>>,
     webViewLink |-> "l"]

\* Result lists of a files.list query: no match, one, several.
Matches(a, b) ==
    {<<>>, <<FileResource(a)>>, <<FileResource(b), FileResource(a)>>}

TemplateResponses == JsonResponses({[files |-> l] : l \in Matches("T1", "T2")})
FolderResponses == JsonResponses({[files |-> l] : l \in Matches("F1", "F1")})

\* The two list queries of get_files and the answers each can get.
Queries == {"template", "folder"}
ResponsesTo(q) == IF q = "template" THEN TemplateResponses ELSE FolderResponses

\* The answer that came back for query q.
Served(a, q) == a[CHOOSE i \in 1..Len(a) : a[i].query = q].resp

\* A join that hands out the answers in the order they came back.
Joined_ByArrival(a) == [template |-> a[1].resp, folder |-> a[2].resp]

\* join!(template, folder): the tuple holds each future's own output, in the
\* order the futures were written.
Joined(a) == [template |-> Served(a, "template"), folder |-> Served(a, "folder")]

AccessBody(at, scope) ==
    [access_token |-> at, expires_in |-> 3599, scope |-> scope, token_type |-> "Bearer"]
WithRefreshToken(body, rt) ==
    [f \in Fields(body) \cup {"refresh_token"} |->
        IF f = "refresh_token" THEN rt ELSE body[f]]

\* The token endpoint's answers to the authorization-code grant, which
\* comes with a refresh token.
BootstrapResponses ==
    JsonResponses({WithRefreshToken(AccessBody(at, sc), rt) :
                     at \in FirstTokens, sc \in ScopeStrings, rt \in RefreshTokens})

\* The token endpoint's answers to the refresh grant: refresh_token is
\* usually left out.
RefreshResponses ==
    JsonResponses({AccessBody(at, sc) : at \in AccessTokens, sc \in StoredScopes}
        \cup {WithRefreshToken(AccessBody(at, sc), "rt2") :
                at \in AccessTokens, sc \in StoredScopes})

CopyResponses == JsonResponses({FileResource(c) : c \in CopyIds})
PatchResponses == {Transport} \cup {Http(s, ErrorJson) : s \in Statuses}
ExportResponses ==
    {Transport} \cup {Http(s, ErrorBytes) : s \in ErrorStatuses}
                \cup {Http(s, b) : s \in OkStatuses, b \in PdfBodies}
AboutResponses == JsonResponses({[user |-> i] : i \in Identities})
SendResponses == {Transport} \cup {Http(s, ErrorJson) : s \in Statuses}

\* What ./scratch/tokens.json holds when the process starts.
InitialFiles ==
    {Absent, Damaged, Stored(ErrorJson)}
        \cup {Stored(AccessBody(at, sc)) : at \in FirstTokens, sc \in StoredScopes}
        \cup {Stored(WithRefreshToken(AccessBody(at, sc), rt)) :
                at \in FirstTokens, sc \in StoredScopes, rt \in RefreshTokens}

(* -------------------------------- state -------------------------------- *)

VARIABLES
    pc,         \* where main is
    credFile,   \* ./scratch/tokens.json
    access,     \* main's `access`
    lookupIn,   \* get_files' two answers, until it inspects them
    lookupRes,  \* what the last get_files returned
    firstRes,   \* what the first get_files of the run returned
    files,      \* main's (file, folder)
    pdf_file,   \* ready_invoice's pdf_file
    pdf,        \* the bytes file_export returned
    outFile,    \* the local output file
    identity,   \* main's (from_name, from_email)
    confirm,    \* main's `confirm`
    sent,       \* the message POSTed to GMAIL_SEND
    err,        \* the error main returned
    calls,      \* how often each operation was invoked
    token,      \* the bearer token each operation last used
    status,     \* the HTTP status each operation last got
    startToken, \* the refresh_token check_access returned
    issued,     \* the access_token the token endpoint issued last
    granted,    \* the scope string first_access read from its token response
    typed,      \* the line read at the confirmation prompt
    arrived,    \* the list answers that have come back, in order of arrival
    requests    \* the file ids the copy, patch and export requests named

vars == <<pc, credFile, access, lookupIn, lookupRes, firstRes, files, pdf_file,
          pdf, outFile, identity, confirm, sent, err, calls, token, status,
          startToken, issued,
          granted, typed, arrived, requests>>

Ops == {"first_access", "save_access", "get_files", "refresh", "file_copy",
        "patch", "file_export", "persist", "get_email", "confirm", "send"}

NoAccess == [access_token |-> NoToken, expires_in |-> 0, refresh_token |-> "",
             scope |-> <<>>, token_type |-> ""]
NoResult == [kind |-> "none", err |-> "none", status |-> 0]
NoAnswers == [template |-> Transport, folder |-> Transport]
NotAsked == <<"?">>
NoRequests == [copy |-> [source |-> NoId, parents |-> <<>>], patch |-> NoId,
               export |-> NoId]
NoGrant == [seen |-> FALSE, scope |-> <<>>]
NoFiles == [template |-> NoId, folder |-> NoId]
NoIdentity == [displayName |-> "", emailAddress |-> ""]

Init ==
    /\ pc = "check_access"
    /\ credFile \in InitialFiles
    /\ access = NoAccess
    /\ lookupIn = NoAnswers
    /\ lookupRes = NoResult
    /\ firstRes = NoResult
    /\ files = NoFiles
    /\ pdf_file = NoId
    /\ pdf = <<>>
    /\ outFile = NoFile
    /\ identity = NoIdentity
    /\ confirm = FALSE
    /\ sent = NoMessage
    /\ err = NoError
    /\ calls = [o \in Ops |-> 0]
    /\ token = [o \in Ops |-> NoToken]
    /\ status = [o \in Ops |-> 0]
    /\ startToken = NoToken
    /\ issued = NoToken
    /\ granted = NoGrant
    /\ typed = NotAsked
    /\ arrived = <<>>
    /\ requests = NoRequests

Called(c, op) == [c EXCEPT ![op] = IF @ < MaxCalls THEN @ + 1 ELSE @]
Used(t, op) == [t EXCEPT ![op] = access.access_token]
Got(st, op, resp) == [st EXCEPT ![op] = resp.status]

\* main returns Err(e) (the `?` after a call): the process ends. A killed
\* process ends without returning anything.
Fail(step, r) ==
    IF r.kind = "killed"
    THEN /\ pc' = "crashed"
         /\ err' = err
    ELSE /\ pc' = "failed"
         /\ err' = Failure(step, r)

(* --------------------------------- main -------------------------------- *)

\* check_access, the branch for a file that exists (lines 122-126).
LoadAccess ==
    /\ pc = "check_access"
    /\ PathExists(credFile)
    /\ \E readable \in BOOLEAN :
        LET r == load_access(credFile, readable)
        IN  IF r.kind = "ok"
            THEN /\ access' = r.val
                 /\ startToken' = r.val.refresh_token
                 /\ pc' = "get_files"
                 /\ err' = err
            ELSE /\ Fail("check_access", r)
                 /\ UNCHANGED <<access, startToken>>
    /\ UNCHANGED <<credFile, lookupIn, lookupRes, firstRes, files, pdf_file, pdf,
                   outFile, identity, confirm, sent, calls, token, status, issued,
                   granted, typed, arrived, requests>>

\* check_access, the branch for no file (line 128): first_access.
FirstAccess ==
    /\ pc = "check_access"
    /\ ~PathExists(credFile)
    /\ \E resp \in BootstrapResponses, io \in SaveOutcomes \cup CrashPoints :
        LET r == first_access(resp, credFile, io)
            text == DecodeAccess(resp.body)
        IN  /\ credFile' = r.file
            /\ calls' = IF r.saved
                        THEN Called(Called(calls, "first_access"), "save_access")
                        ELSE Called(calls, "first_access")
            /\ status' = Got(status, "first_access", resp)
            /\ issued' = IF resp.kind = "http" /\ text.kind = "ok"
                         THEN text.val.access_token ELSE issued
            /\ granted' = IF resp.kind = "http" /\ text.kind = "ok"
                          THEN [seen |-> TRUE, scope |-> text.val.scope] ELSE granted
            /\ IF r.res.kind = "ok"
               THEN /\ access' = r.res.val
                    /\ startToken' = r.res.val.refresh_token
                    /\ pc' = "get_files"
                    /\ err' = err
               ELSE /\ Fail("first_access", r.res)
                    /\ UNCHANGED <<access, startToken>>
    /\ UNCHANGED <<lookupIn, lookupRes, firstRes, files, pdf_file, pdf, outFile,
                   identity, confirm, sent, token, typed, arrived, requests>>

\* main lines 411-416: Ok breaks out of the loop, any Err refreshes.
LookupArm(r) == IF r.kind = "ok" THEN "file_copy" ELSE "refresh"

\* get_files lines 241-247: both list requests are sent with the bearer
\* token.
GetFilesSend ==
    /\ pc = "get_files"
    /\ pc' = "get_files_join"
    /\ calls' = Called(calls, "get_files")
    /\ token' = Used(token, "get_files")
    /\ UNCHANGED <<credFile, access, lookupIn, lookupRes, firstRes, files,
                   pdf_file, pdf, outFile, identity, confirm, sent, err, status,
                   startToken, issued, granted, typed, requests>>
    /\ arrived' = <<>>

\* get_files lines 241-252: the two requests run concurrently inside join!
\* and complete in either order; join! returns once both are complete.
Arrive ==
    /\ pc = "get_files_join"
    /\ \E q \in Queries \ {arrived[i].query : i \in 1..Len(arrived)} :
        \E resp \in ResponsesTo(q) :
            LET a == Append(arrived, [query |-> q, resp |-> resp])
            IN  /\ arrived' = a
                /\ IF Len(a) = Cardinality(Queries)
                   THEN /\ lookupIn' = Joined(a)
                        /\ pc' = "get_files_inspect"
                   ELSE UNCHANGED <<lookupIn, pc>>
    /\ UNCHANGED <<credFile, access, lookupRes, firstRes, files, pdf_file, pdf,
                   outFile, identity, confirm, sent, err, calls, token, status,
                   startToken, issued, granted, typed, requests>>

\* get_files lines 248-254 and main's match on what it returns; a panic in
\* get_files unwinds through main.
GetFilesInspect ==
    /\ pc = "get_files_inspect"
    /\ LET r == get_files(lookupIn.template, lookupIn.folder)
       IN  /\ lookupRes' = Outcome(r)
           /\ firstRes' = IF firstRes = NoResult THEN Outcome(r) ELSE firstRes
           /\ files' = IF r.kind = "ok"
                       THEN [template |-> r.val.template.id, folder |-> r.val.folder.id]
                       ELSE files
           /\ IF r.kind = "panic"
              THEN /\ pc' = "panicked"
                   /\ err' = Failure("get_files", r)
              ELSE /\ pc' = LookupArm(r)
                   /\ err' = err
    /\ lookupIn' = NoAnswers
    /\ UNCHANGED <<credFile, access, pdf_file, pdf, outFile, identity, confirm,
                   sent, calls, token, status, startToken, issued,
                   granted, typed, arrived, requests>>

\* main line 414: access = refresh(&client, access, path).await?
Refresh ==
    /\ pc = "refresh"
    /\ \E resp \in RefreshResponses, io \in SaveOutcomes \cup CrashPoints :
        LET r == refresh(access, resp, credFile, io)
            text == DecodeAccess(resp.body)
        IN  /\ credFile' = r.file
            /\ calls' = IF r.saved
                        THEN Called(Called(calls, "refresh"), "save_access")
                        ELSE Called(calls, "refresh")
            /\ status' = Got(status, "refresh", resp)
            /\ issued' = IF resp.kind = "http" /\ text.kind = "ok"
                         THEN text.val.access_token ELSE issued
            /\ IF r.res.kind = "ok"
               THEN /\ access' = r.res.val
                    /\ pc' = "get_files"
                    /\ err' = err
               ELSE /\ Fail("refresh", r.res)
                    /\ access' = access
    /\ UNCHANGED <<lookupIn, lookupRes, firstRes, files, pdf_file, pdf, outFile,
                   identity, confirm, sent, token, startToken,
                   granted, typed, requests>>
    /\ arrived' = <<>>

\* ready_invoice line 331: file_copy, with the ids main passed (lines
\* 418-422: file.id as file_id, folder.id as folder_id).
FileCopy ==
    /\ pc = "file_copy"
    /\ \E resp \in CopyResponses :
        LET r == file_copy(resp)
        IN  /\ status' = Got(status, "file_copy", resp)
            /\ IF r.kind = "ok"
               THEN /\ pdf_file' = r.val.id
                    /\ pc' = "patch"
                    /\ err' = err
               ELSE /\ Fail("file_copy", r)
                    /\ pdf_file' = pdf_file
    /\ calls' = Called(calls, "file_copy")
    /\ requests' = [requests EXCEPT !.copy = copy_request(files.folder, files.template)]
    /\ token' = Used(token, "file_copy")
    /\ UNCHANGED <<credFile, access, lookupIn, lookupRes, firstRes, files, pdf,
                   outFile, identity, confirm, sent, startToken, issued,
                   granted, typed>>
    /\ arrived' = <<>>

\* ready_invoice lines 336-342: the PUT of the date cell
PatchCell ==
    /\ pc = "patch"
    /\ \E resp \in PatchResponses :
        LET r == patch_cell(resp)
        IN  /\ status' = Got(status, "patch", resp)
            /\ IF r.kind = "ok"
               THEN /\ pc' = "file_export"
                    /\ err' = err
               ELSE Fail("patch", r)
    /\ calls' = Called(calls, "patch")
    /\ requests' = [requests EXCEPT !.patch = pdf_file]
    /\ token' = Used(token, "patch")
    /\ UNCHANGED <<credFile, access, lookupIn, lookupRes, firstRes, files,
                   pdf_file, pdf, outFile, identity, confirm, sent, startToken,
                   issued,
                   granted, typed, arrived>>

\* ready_invoice line 345: file_export
FileExport ==
    /\ pc = "file_export"
    /\ \E resp \in ExportResponses :
        LET r == file_export(resp)
        IN  /\ status' = Got(status, "file_export", resp)
            /\ IF r.kind = "ok"
               THEN /\ pdf' = r.val
                    /\ pc' = "persist"
                    /\ err' = err
               ELSE /\ Fail("file_export", r)
                    /\ pdf' = pdf
    /\ calls' = Called(calls, "file_export")
    /\ requests' = [requests EXCEPT !.export = pdf_file]
    /\ token' = Used(token, "file_export")
    /\ UNCHANGED <<credFile, access, lookupIn, lookupRes, firstRes, files,
                   pdf_file, outFile, identity, confirm, sent, startToken, issued,
                   granted, typed, arrived>>

\* ready_invoice lines 346-350: the local file, then Ok((pdf, pdf_file))
PersistPdf ==
    /\ pc = "persist"
    /\ \E io \in SaveOutcomes, n \in 0..(IF Len(pdf) = 0 THEN 0 ELSE Len(pdf) - 1) :
        LET r == persist_pdf(pdf, outFile, io, n)
        IN  /\ outFile' = r.file
            /\ IF r.res.kind = "ok"
               THEN /\ pc' = "get_email"
                    /\ err' = err
               ELSE Fail("persist", r.res)
    /\ calls' = Called(calls, "persist")
    /\ UNCHANGED <<credFile, access, lookupIn, lookupRes, firstRes, files,
                   pdf_file, pdf, identity, confirm, sent, token, status,
                   startToken, issued,
                   granted, typed, arrived, requests>>

\* main line 429: get_email
GetEmail ==
    /\ pc = "get_email"
    /\ \E resp \in AboutResponses :
        LET r == get_email(resp)
        IN  /\ status' = Got(status, "get_email", resp)
            /\ IF r.kind = "ok"
               THEN /\ identity' = r.val
                    /\ pc' = "confirm"
                    /\ err' = err
               ELSE /\ Fail("get_email", r)
                    /\ identity' = identity
    /\ calls' = Called(calls, "get_email")
    /\ token' = Used(token, "get_email")
    /\ UNCHANGED <<credFile, access, lookupIn, lookupRes, firstRes, files,
                   pdf_file, pdf, outFile, confirm, sent, startToken, issued,
                   granted, typed, arrived, requests>>

\* main lines 431-449: the prompt. read_line(..).unwrap() panics on an
\* error inside the blocking task, which main's `.await?` returns as a
\* JoinError; a line other than y/yes ends main with Ok(()).
Confirm ==
    /\ pc = "confirm"
    /\ \E input \in ConfirmInputs :
        LET line == read_line(input)
        IN  /\ typed' = input
            /\ IF line.kind = "ok"
               THEN /\ confirm' = Confirmed(line.val)
                    /\ pc' = IF Confirmed(line.val) THEN "send_email" ELSE "done"
                    /\ err' = err
               ELSE /\ confirm' = confirm
                    /\ Fail("confirm", Err("join", 0))
    /\ calls' = Called(calls, "confirm")
    /\ UNCHANGED <<credFile, access, lookupIn, lookupRes, firstRes, files,
                   pdf_file, pdf, outFile, identity, sent, token, status,
                   startToken, issued, granted, arrived, requests>>

\* send_email: get_email, the message, the POST with error_for_status.
send_email(about, post, bytes) ==
    LET who == get_email(about)
    IN  IF who.kind # "ok"
        THEN [res |-> who, posted |-> FALSE, msg |-> NoMessage]
        ELSE [res |-> CheckedStatus(post), posted |-> TRUE,
              msg |-> ComposeMessage(who.val.displayName, who.val.emailAddress, bytes)]

\* main line 451: send_email, then Ok(())
SendEmail ==
    /\ pc = "send_email"
    /\ \E about \in AboutResponses, post \in SendResponses :
        \E r \in {send_email(about, post, pdf)} :
            /\ calls' = IF r.posted
                        THEN Called(Called(calls, "get_email"), "send")
                        ELSE Called(calls, "get_email")
            /\ token' = IF r.posted
                        THEN Used(Used(token, "get_email"), "send")
                        ELSE Used(token, "get_email")
            /\ status' = IF r.posted
                         THEN Got(Got(status, "get_email", about), "send", post)
                         ELSE Got(status, "get_email", about)
            /\ sent' = IF r.posted THEN r.msg ELSE sent
            /\ IF r.res.kind = "ok"
               THEN /\ pc' = "done"
                    /\ err' = err
               ELSE Fail("send_email", r.res)
    /\ UNCHANGED <<credFile, access, lookupIn, lookupRes, firstRes, files,
                   pdf_file, pdf, outFile, identity, confirm, startToken, issued,
                   granted, typed, arrived, requests>>

Next ==
    \/ LoadAccess
    \/ FirstAccess
    \/ GetFilesSend
    \/ Arrive
    \/ GetFilesInspect
    \/ Refresh
    \/ FileCopy
    \/ PatchCell
    \/ FileExport
    \/ PersistPdf
    \/ GetEmail
    \/ Confirm
    \/ SendEmail

Spec == Init /\ [][Next]_vars

\* Every remote call, file operation and prompt returns: main keeps running
\* until it returns or panics.
FairSpec == Spec /\ WF_vars(Next)

Terminated == pc \in {"done", "failed", "panicked", "crashed"}

(* ------------------------------- claims -------------------------------- *)

\* The operations that change something at the remote service.
SideEffecting == {"file_copy", "patch", "file_export", "send"}
\* The step of main that an operation's error is reported from.
StepOf(op) == IF op = "send" THEN "send_email" ELSE op
\* The steps after the lookup loop.
LaterSteps == {"file_copy", "patch", "file_export", "persist", "get_email",
               "confirm", "send_email"}

AuthFailure(r) == r.kind = "err" /\ r.err = "status" /\ r.status = 401

\* Both list queries were answered 2xx with a decodable list.
BothListed(in) ==
    /\ CheckedStatus(in.template).kind = "ok"
    /\ CheckedStatus(in.folder).kind = "ok"
    /\ DecodeList(in.template.body).kind = "ok"
    /\ DecodeList(in.folder.body).kind = "ok"
SomeListEmpty(in) ==
    \/ in.template.body.files = <<>>
    \/ in.folder.body.files = <<>>

\* C1: when a list query answers with an empty result set, get_files returns
\* a NotFound error value: main neither panics nor goes on to copy.
C1_EmptyLookupIsNotFound ==
    [][(pc = "get_files_inspect" /\ BothListed(lookupIn) /\ SomeListEmpty(lookupIn))
         => (lookupRes'.kind = "err" /\ lookupRes'.err = "not_found"
             /\ pc' \notin {"panicked", "file_copy"})]_vars

\* C2: every run reaches a terminal state (main returned or the process
\* died), given that every call returns.
C2_RunTerminates == <>Terminated

\* C3: refresh is invoked only after get_files failed with an authentication
\* failure (401); any other lookup failure ends the run.
C3_RefreshOnlyOnAuthFailure ==
    /\ pc = "refresh" => AuthFailure(lookupRes)
    /\ (lookupRes.kind = "err" /\ ~AuthFailure(lookupRes) /\ pc # "get_files_inspect")
          => (pc = "failed" /\ err.step = "get_files")

\* The first get_files failed with a 401, the refresh that followed succeeded
\* and the second get_files succeeded.
Recovered ==
    /\ AuthFailure(firstRes)
    /\ calls["get_files"] = 2
    /\ lookupRes.kind = "ok"
    /\ pc # "get_files_inspect"

\* C4: after a 401 on the first lookup, a successful refresh and a successful
\* second lookup, refresh was invoked exactly once, the run is in copy, patch,
\* export or beyond, every call since used the access token that refresh was
\* issued, and only a failure of a later step can fail the run.
C4_AuthExpiryRecovered ==
    Recovered =>
        /\ calls["refresh"] = 1
        /\ access.access_token = issued
        /\ token["get_files"] = issued
        /\ \A op \in {"file_copy", "patch", "file_export", "get_email", "send"} :
              calls[op] > 0 => token[op] = issued
        /\ pc \in {"file_copy", "patch", "file_export", "persist", "get_email",
                   "confirm", "send_email", "done", "failed"}
        /\ pc = "failed" => err.step \in LaterSteps
        /\ pc = "done" => err = NoError

\* C4's case: the recovered run sent its email and ended without an error,
\* on a token other than the one it started with.
C4_Witness ==
    /\ Recovered
    /\ pc = "done"
    /\ calls["send"] = 1
    /\ issued = "at2"
    /\ token["send"] = "at2"

\* The refresh_token of the credential file, when it holds a credential.
StoredRefreshToken == DecodeAccess(credFile.json).val.refresh_token

\* C5: once check_access has returned a credential, its refresh_token stays
\* in main's credential and in the credential file through every refresh,
\* whether or not the refresh response carries one.
C5_RefreshPreservesRefreshToken ==
    access # NoAccess =>
        /\ access.refresh_token = startToken
        /\ (credFile.kind = "json" /\ DecodeAccess(credFile.json).kind = "ok")
              => StoredRefreshToken = startToken

\* C5's case: two refreshes have succeeded and saved, and the refresh token
\* the run started with is still in memory and in the file.
C5_Witness ==
    /\ calls["refresh"] >= 2
    /\ calls["save_access"] >= 2
    /\ pc = "file_copy"
    /\ startToken = "rt1"
    /\ access.refresh_token = "rt1"
    /\ credFile.kind = "json"
    /\ StoredRefreshToken = "rt1"

\* The bootstrap token response carried a scope string that does not split
\* into as many words as there are required scopes.
ScopeMismatch == granted.seen /\ SplitCount(granted.scope) # NumDriveScopes

\* C6: on such a response first_access fails with the scope error,
\* save_access is not called, the credential file is not written and no
\* step of the pipeline runs.
C6_ScopeValidation ==
    ScopeMismatch =>
        /\ pc = "failed"
        /\ err = [step |-> "first_access", err |-> "scopes", status |-> 0]
        /\ calls["save_access"] = 0
        /\ credFile = Absent
        /\ access = NoAccess
        /\ \A op \in Ops \ {"first_access"} : calls[op] = 0
        /\ sent = NoMessage
        /\ outFile = NoFile

\* C6's case: a response granting three words' worth of scope was refused.
C6_Witness ==
    /\ ScopeMismatch
    /\ SplitCount(granted.scope) > NumDriveScopes
    /\ pc = "failed"
    /\ err.err = "scopes"

\* C7: when the export request is answered with a non-2xx status,
\* file_export fails, so nothing is written to the local file, no artifact
\* is returned and no email is sent.
C7_ExportFailureIsAnError ==
    (calls["file_export"] > 0 /\ IsErrorStatus(status["file_export"])) =>
        /\ pc = "failed"
        /\ err.step = "file_export"
        /\ err.err = "status"
        /\ outFile = NoFile
        /\ calls["send"] = 0

\* C8: when the cell PUT is answered with a non-2xx status, the run ends with
\* that error after the one attempt: no export, no local file, no prompt, no
\* email.
C8_PatchFailureIsFatal ==
    (calls["patch"] > 0 /\ IsErrorStatus(status["patch"])) =>
        /\ pc = "failed"
        /\ err = [step |-> "patch", err |-> "status", status |-> status["patch"]]
        /\ calls["patch"] = 1
        /\ calls["file_export"] = 0
        /\ calls["persist"] = 0
        /\ outFile = NoFile
        /\ calls["confirm"] = 0
        /\ calls["send"] = 0
        /\ sent = NoMessage

\* C8's case: the PUT was answered 500 after a successful copy.
C8_Witness ==
    /\ calls["patch"] = 1
    /\ status["patch"] = 500
    /\ calls["file_copy"] = 1
    /\ pc = "failed"

\* The last request of `op` failed at the service: no answer, or a non-2xx
\* one.
RemoteFailure(op) ==
    calls[op] > 0 /\ (status[op] = 0 \/ IsErrorStatus(status[op]))

\* C9: copy, patch, export and send are each invoked at most once, and a
\* failure of one of them ends the run there.
C9_NoRetryOfSideEffects ==
    \A op \in SideEffecting :
        /\ calls[op] <= 1
        /\ RemoteFailure(op) => (pc = "failed" /\ err.step = StepOf(op))

\* What the receiver of the message reads back from its base64 attachment.
RECURSIVE Base64Decode(_)
Base64Decode(d) ==
    IF Len(d) < 4 THEN <<>>
    ELSE IF d[3] = B64Pad
    THEN <<d[1] * 4 + (d[2] \div 16)>>
    ELSE IF d[4] = B64Pad
    THEN <<d[1] * 4 + (d[2] \div 16), (d[2] % 16) * 16 + (d[3] \div 4)>>
    ELSE <<d[1] * 4 + (d[2] \div 16), (d[2] % 16) * 16 + (d[3] \div 4),
           (d[3] % 4) * 64 + d[4]>>
         \o Base64Decode(SubSeq(d, 5, Len(d)))

\* ready_invoice has returned Ok((pdf, pdf_file)).
ArtifactReturned ==
    \/ pc \in {"get_email", "confirm", "send_email", "done"}
    \/ pc = "failed" /\ err.step \in {"get_email", "confirm", "send_email"}

\* C10: the local file is written only after export has returned; when
\* ready_invoice returns, the file holds the exported bytes, flushed and
\* synced; and an email carries exactly the bytes of the file, which are the
\* bytes export returned.
C10_ArtifactConsistency ==
    /\ outFile # NoFile => (calls["file_export"] = 1 /\ calls["persist"] = 1
                             /\ pc \notin {"file_export", "persist"})
    /\ ArtifactReturned => outFile = LocalFile(pdf, TRUE)
    /\ calls["send"] > 0 =>
          /\ ArtifactReturned
          /\ Base64Decode(sent.attachment) = outFile.bytes
          /\ outFile.bytes = pdf
          /\ pdf \in PdfBodies \cup {ErrorBytes}

\* C10's case: an email went out with a four-byte document that is also on
\* disk.
C10_Witness ==
    /\ calls["send"] = 1
    /\ pc = "done"
    /\ Len(pdf) = 4
    /\ outFile.bytes = pdf
    /\ Len(sent.attachment) = 8

\* The lines that, lower-cased and trimmed, read "y" or "yes".
YesLines == {<<"y", "\n">>, <<" ", "Y", "e", "S", " ", "\n">>}

\* The gate itself: nothing is sent unless ready_invoice returned its
\* artifact and the line read y or yes once lower-cased and trimmed; after
\* any other line that could be read main returns Ok(()) with nothing sent.
C11_SendOnlyAfterYes ==
    /\ calls["send"] > 0 \/ pc = "send_email" =>
          /\ typed \in YesLines
          /\ ArtifactReturned
          /\ calls["confirm"] = 1
    /\ (calls["confirm"] > 0 /\ typed \notin YesLines) =>
          /\ calls["send"] = 0
          /\ sent = NoMessage
          /\ typed # NotUtf8 => (pc = "done" /\ err = NoError)
    /\ (calls["confirm"] > 0 /\ typed \in YesLines) => pc \in {"send_email", "done", "failed"}

\* C11: an email is sent only after ready_invoice returned its artifact and
\* the input at the prompt reads y or yes once lower-cased and trimmed;
\* after any other input no email is sent and main returns Ok(()).
C11_ConfirmationGate ==
    /\ C11_SendOnlyAfterYes
    /\ (calls["confirm"] > 0 /\ typed \notin YesLines) =>
          /\ pc = "done"
          /\ err = NoError

\* "ye" was typed and main returned Ok(()) without sending.
C11_Witness ==
    /\ typed = <<"y", "e", "\n">>
    /\ pc = "done"
    /\ calls["send"] = 0
    /\ outFile.durable

\* " YeS " was typed and the email went out.
C11_WitnessSent ==
    /\ typed = <<" ", "Y", "e", "S", " ", "\n">>
    /\ pc = "done"
    /\ calls["send"] = 1

\* C12: after the process is killed inside save_access, the next
\* check_access finds no credential file or one that parses.
C12_CrashSafeSave ==
    pc = "crashed" =>
        \/ credFile.kind = "absent"
        \/ load_access(credFile, TRUE).kind = "ok"

\* The part of C12 that holds: a kill after write_all leaves the new
\* credential in the file.
C12_KilledAfterWrite ==
    (pc = "crashed" /\ credFile.kind = "json") =>
        /\ DecodeAccess(credFile.json).kind = "ok"
        /\ DecodeAccess(credFile.json).val.access_token = issued

\* The answer among those that came back that belongs to query q, whatever
\* its position.
AnswerTo(q) ==
    LET i == CHOOSE k \in 1..Len(arrived) : arrived[k].query = q
    IN  arrived[i].resp

\* C13: once both list requests completed, what get_files returned (the
\* pair of files, the error or the panic) is determined by the answer to the
\* template query and the answer to the folder query alone, the template's
\* being looked at first; the order in which they came back plays no part.
C13_LookupOrderIndependent ==
    (Len(arrived) = Cardinality(Queries) /\ pc # "get_files_inspect") =>
        LET r == get_files(AnswerTo("template"), AnswerTo("folder"))
        IN  /\ lookupRes = Outcome(r)
            /\ r.kind = "ok" <=> pc = "file_copy"
            /\ r.kind = "err" <=> pc = "refresh"
            /\ r.kind = "panic" <=> pc = "panicked"
            /\ r.kind = "ok" =>
                  files = [template |-> r.val.template.id, folder |-> r.val.folder.id]

\* C13's case: the folder's answer (500) came back before the template's
\* (401) and get_files reported the template's error.
C13_Witness ==
    /\ pc = "refresh"
    /\ Len(arrived) = 2
    /\ arrived[1].query = "folder"
    /\ arrived[1].resp.status = 500
    /\ arrived[2].resp.status = 401
    /\ lookupRes.status = 401

\* C13's other case: the folder's answer came back first and the pair is
\* still (template, folder).
C13_WitnessPair ==
    /\ pc = "file_copy"
    /\ Len(arrived) = 2
    /\ arrived[1].query = "folder"
    /\ files = [template |-> "T2", folder |-> "F1"]

\* The credential file is there, nothing has written to it in this run, and
\* its bytes do not parse as an Access.
CorruptRecord ==
    /\ calls["save_access"] = 0
    /\ credFile.kind # "absent"
    /\ load_access(credFile, TRUE).kind # "ok"

\* C14: with a credential file that exists and does not parse, check_access
\* fails: first_access is not invoked, the file stays as it is and no step
\* of the pipeline runs; first_access is invoked only when there is no file.
C14_CorruptCredential ==
    /\ [](CorruptRecord =>
            /\ \A op \in Ops : calls[op] = 0
            /\ access = NoAccess
            /\ pc \in {"check_access", "failed"}
            /\ pc = "failed" =>
                  /\ err.step = "check_access"
                  /\ err.err \in {"decode", "io"})
    /\ [][CorruptRecord => credFile' = credFile]_vars
    /\ [][calls'["first_access"] # calls["first_access"] => credFile.kind = "absent"]_vars

\* C14's case: the file held bytes that are not JSON and main returned the
\* parse error.
C14_Witness ==
    /\ credFile = Damaged
    /\ pc = "failed"
    /\ err.step = "check_access"
    /\ err.err = "decode"
    /\ calls["first_access"] = 0

\* The pieces of a text, counted byte by byte.
RECURSIVE Bytes(_)
Bytes(text) ==
    IF Len(text) = 0 THEN 0 ELSE Len(Head(text)) + Bytes(Tail(text))

\* The line feeds of a text.
LineFeeds(text) == {i \in 1..Len(text) : text[i] = "\n"}

\* C15: the Content-Length header of every posted message equals the byte
\* length of the body as posted, after the conversion to CRLF: it is neither
\* the length of the attachment nor the length of the text before the
\* conversion, and every LF of the body follows a CR.
C15_ContentLengthMatchesBody ==
    calls["send"] > 0 =>
        LET text == Format(MessageLines(sent.from_name, sent.from_email,
                                        Base64Text(sent.attachment)))
        IN  /\ sent.content_length = Bytes(sent.body)
            /\ sent.content_length = Bytes(text) + Cardinality(LineFeeds(text))
            /\ sent.content_length # Bytes(text)
            /\ sent.content_length # Len(sent.attachment)
            /\ Cardinality(LineFeeds(sent.body)) = Cardinality(LineFeeds(text))
            /\ \A i \in LineFeeds(sent.body) : i > 1 /\ sent.body[i - 1] = "\r"

\* C15's case: a message with a padded attachment was posted.
C15_Witness ==
    /\ calls["send"] = 1
    /\ Len(pdf) = 2
    /\ Len(sent.attachment) = 4
    /\ sent.content_length > Len(sent.body)
    /\ Cardinality(LineFeeds(sent.body)) = 19

\* The order of the steps and the ids they name, leaving aside whether the
\* export succeeded.
OrderedUpToExport ==
    /\ calls["file_copy"] > 0 =>
          /\ lookupRes.kind = "ok"
          /\ files.template \in {"T1", "T2"} /\ files.folder = "F1"
          /\ requests.copy = [source |-> files.template, parents |-> <<files.folder>>]
    /\ calls["patch"] > 0 =>
          /\ calls["file_copy"] = 1
          /\ status["file_copy"] \in OkStatuses
          /\ pdf_file \in CopyIds
          /\ requests.patch = pdf_file
    /\ calls["file_export"] > 0 =>
          /\ calls["patch"] = 1
          /\ status["patch"] \in OkStatuses
          /\ requests.export = pdf_file
    /\ calls["persist"] > 0 => calls["file_export"] = 1
    /\ calls["confirm"] > 0 => (calls["persist"] = 1 /\ outFile = LocalFile(pdf, TRUE))
    /\ calls["send"] > 0 => (calls["confirm"] = 1 /\ confirm)
    /\ (pc \in LaterSteps /\ calls["get_files"] < MaxCalls) =>
          calls["refresh"] = calls["get_files"] - 1

\* C16: the steps run in the order lookup, copy, patch, export, local file,
\* prompt, send, each only after the one before it succeeded; the copy names
\* the template and folder of the successful lookup and the patch and the
\* export name the copy.
C16_PipelineOrdering ==
    /\ OrderedUpToExport
    /\ calls["persist"] > 0 => status["file_export"] \in OkStatuses

\* The ordering with the export's outcome left out holds, and the ids are
\* the right ones: a run that got as far as the export of copy C1 made from
\* template T2 into folder F2.
C16_OrderingWitness ==
    /\ calls["file_export"] = 1
    /\ requests = [copy |-> [source |-> "T2", parents |-> <<"F1">>],
                   patch |-> "C1", export |-> "C1"]

\* The control points from which a request goes to the document, identity or
\* mail service, or where one is in flight or has been answered.
GatewayPoints ==
    {"get_files", "get_files_join", "get_files_inspect", "file_copy", "patch",
     "file_export", "persist", "get_email", "confirm", "send_email", "done"}

\* What the next start of the process would load.
NextLoad == load_access(credFile, TRUE)

\* C17: whenever a gateway call is issued, the credential in use is the one
\* the credential file holds, written and synced: a credential made by
\* first_access or refresh is saved before its first use and the next start
\* loads it.
C17_PersistOnEveryMutation ==
    /\ pc \in GatewayPoints =>
          /\ credFile.kind = "json"
          /\ credFile.durable
          /\ NextLoad = Ok(access)
    /\ \A op \in Ops \ {"get_files"} :
          token[op] # NoToken =>
              /\ credFile.kind = "json"
              /\ credFile.durable
              /\ token[op] = NextLoad.val.access_token
    /\ pc \in {"get_files_join", "get_files_inspect"} =>
          token["get_files"] = NextLoad.val.access_token

\* C17's case: a refreshed credential is in use for the second lookup and
\* is what the file holds.
C17_Witness ==
    /\ pc = "get_files_join"
    /\ calls["refresh"] = 1
    /\ calls["save_access"] = 1
    /\ access.access_token = "at2"
    /\ NextLoad = Ok(access)

\* The refresh that is being answered fails before save_access: the request
\* did not get through, or the answer does not decode as an Access.
RefreshFailsNow ==
    /\ pc = "refresh"
    /\ pc' = "failed"
    /\ err'.err \in {"transport", "decode"}

\* C18: a refresh that fails on the transport or on an answer that does not
\* decode (every non-2xx answer among them) leaves the credential file as it
\* was and ends the run with that error; nothing runs after it.
C18_RefreshFailureIsTerminal ==
    /\ [][RefreshFailsNow =>
            /\ credFile' = credFile
            /\ calls'["save_access"] = calls["save_access"]
            /\ err'.step = "refresh"
            /\ access' = access]_vars
    /\ [][(pc = "refresh" /\ (status'["refresh"] = 0 \/ IsErrorStatus(status'["refresh"]))) =>
            /\ RefreshFailsNow
            /\ err'.err = IF status'["refresh"] = 0 THEN "transport" ELSE "decode"]_vars
    /\ [][pc = "failed" => UNCHANGED vars]_vars

\* C18's case: the token endpoint answered 401 to the refresh and main
\* returned the decode error with the stored credential still in place.
C18_Witness ==
    /\ pc = "failed"
    /\ err.step = "refresh"
    /\ err.err = "decode"
    /\ status["refresh"] = 401
    /\ calls["save_access"] = 0
    /\ calls["get_files"] = 1
    /\ NextLoad = Ok(access)

\* C19: the name and address in the From header (and the name in the
\* Subject) of a sent email are the identity shown at the prompt.
C19_ConfirmedSenderIsSender ==
    calls["send"] > 0 =>
        /\ sent.from_name = identity.displayName
        /\ sent.from_email = identity.emailAddress

\* What does hold: the sender is an identity the service returned to the
\* second get_email, and the prompt showed one it returned to the first.
C19_SenderIsSomeIdentity ==
    calls["send"] > 0 =>
        /\ identity \in Identities
        /\ [displayName |-> sent.from_name, emailAddress |-> sent.from_email] \in Identities
        /\ calls["get_email"] = 2

=============================================================================
